---- MODULE Spec2Model ----
(***************************************************************************)
(* Model of the timetable scraper (scraper/src/main.rs): the run of main   *)
(* (row-count gate, configuration, plan-map build over eight hours, the    *)
(* live-changes fetch, the Parquet sink and the heartbeat line) and the    *)
(* per-stop flattening of fetch_departures (train name, delay, route,      *)
(* destination, scheduled time, platform, disturbances).                  *)
(*                                                                         *)
(* Strings are sequences of one-character strings, so that split, take,    *)
(* format and parse are computed on characters. Option<T> is a record      *)
(* with a `some` flag.                                                     *)
(***************************************************************************)
EXTENDS Integers, Sequences, FiniteSets, TLC

VARIABLES
    pc,            \* position of main: "open", "gate", "config", "dirs", "plan", "live",
                   \* "live_resp", "sink", "heartbeat", "done"
    exit,          \* "running", "ok" (main returned Ok), "err" (main returned Err), "panic"
    count,         \* Option: the row count main holds (after unwrap_or(0))
    i,             \* the loop variable of fetch_plan_map, an hour offset
    planFetches,   \* number of plan requests sent
    plan_map,      \* HashMap<String, String>: a function from a set of ids to names
    planResult,    \* "none", "ok" (fetch_plan_map returned Ok), "err"
    lastPlanStop,  \* Option: the stop fetch_plan_map inserted last
    liveFetches,   \* number of live-changes requests sent
    liveResp,      \* Option: what came back for the live-changes request
    liveResult,    \* "none", "ok" (fetch_departures returned Ok), "err"
    departures,    \* Vec<Departure>: the records fetch_departures returned
    sinkCalls,     \* number of calls of write_parquet
    sinkResult,    \* "none", "ok", "err": what write_parquet returned
    artifacts,     \* number of Parquet files created
    heartbeatIo,   \* "none", "ok", "open_err", "write_err": the heartbeat append
    heartbeat,     \* the lines this run appended to logs/heartbeat.log: the N of each
    stderr         \* the eprintln! lines, in order

vars == <<pc, exit, count, i, planFetches, plan_map, planResult, lastPlanStop,
          liveFetches, liveResp, liveResult, departures, sinkCalls, sinkResult,
          artifacts, heartbeatIo, heartbeat, stderr>>

---------------------------------------------------------------------------
(* Option<T> *)

None == [some |-> FALSE]

Some(v) == [some |-> TRUE, val |-> v]

\* Option::or
OptionOr(a, b) == IF a.some THEN a ELSE b

\* Option::unwrap_or_default on Option<String>
UnwrapOrDefault(o) == IF o.some THEN o.val ELSE <<>>

OptionOf(S) == {None} \cup {Some(v) : v \in S}

---------------------------------------------------------------------------
(* Strings *)

\* the characters the model uses, in ASCII order
Ascii == <<" ", "-", "0", "1", "2", "3", "4", "5", "6", "7", "8", "9", ":",
           "A", "B", "C", "D", "E", "H", "I", "R", "S", "U",
           "b", "d", "e", "f", "i", "k", "l", "n", "o", "r", "w", "x", "|">>

Ord(c) == CHOOSE k \in 1..Len(Ascii) : Ascii[k] = c

Digits == <<"0", "1", "2", "3", "4", "5", "6", "7", "8", "9">>

IsDigit(c) == \E k \in 1..10 : Digits[k] = c

DigitVal(c) == (CHOOSE k \in 1..10 : Digits[k] = c) - 1

\* two decimal digits, zero padded ({:02})
Fmt2(n) == <<Digits[((n \div 10) % 10) + 1], Digits[(n % 10) + 1]>>

\* four decimal digits, zero padded (%Y of a year 1000..9999)
Fmt4(n) == Fmt2(n \div 100) \o Fmt2(n % 100)

\* s.chars().take(n)
Take(s, n) == SubSeq(s, 1, IF Len(s) < n THEN Len(s) ELSE n)

\* positions of the delimiter in s
DelimAt(s, c) == {k \in 1..Len(s) : s[k] = c}

RECURSIVE SplitFrom(_, _, _)
\* the pieces of s from position p on, cut at every c (an empty piece between two
\* delimiters, before a leading one and after a trailing one)
SplitFrom(s, c, p) ==
    LET later == {k \in DelimAt(s, c) : k >= p}
    IN  IF later = {}
        THEN <<SubSeq(s, p, Len(s))>>
        ELSE LET k == CHOOSE m \in later : \A o \in later : m <= o
             IN  <<SubSeq(s, p, k - 1)>> \o SplitFrom(s, c, k + 1)

\* str::split(c), collected: never empty, "" gives [""]
Split(s, c) == SplitFrom(s, c, 1)

\* Iterator::last
LastOf(xs) == IF Len(xs) = 0 THEN None ELSE Some(xs[Len(xs)])

\* Option::filter(|s| !s.is_empty())
FilterNonEmpty(o) == IF o.some /\ Len(o.val) > 0 THEN o ELSE None

RECURSIVE Join(_, _)
\* [String]::join(sep)
Join(xs, sep) ==
    IF Len(xs) = 0 THEN <<>>
    ELSE IF Len(xs) = 1 THEN xs[1]
    ELSE xs[1] \o sep \o Join(Tail(xs), sep)

RECURSIVE StrLess(_, _)
\* the order of String (byte-wise lexicographic), strict
StrLess(s, t) ==
    IF Len(t) = 0 THEN FALSE
    ELSE IF Len(s) = 0 THEN TRUE
    ELSE IF s[1] = t[1] THEN StrLess(Tail(s), Tail(t))
    ELSE Ord(s[1]) < Ord(t[1])

RECURSIVE SortedOf(_)
\* the elements of a set of strings in ascending order
SortedOf(S) ==
    IF S = {} THEN <<>>
    ELSE LET m == CHOOSE x \in S : \A y \in S : y = x \/ StrLess(x, y)
         IN  <<m>> \o SortedOf(S \ {m})

\* Vec::sort then Vec::dedup: ascending, every value once
SortDedup(xs) == SortedOf({xs[k] : k \in 1..Len(xs)})

RECURSIVE FilterMapCategory(_)
\* filter_map(|m| m.category.clone()) over a sequence of messages
FilterMapCategory(ms) ==
    IF Len(ms) = 0 THEN <<>>
    ELSE (IF ms[1].category.some THEN <<ms[1].category.val>> ELSE <<>>)
         \o FilterMapCategory(Tail(ms))

---------------------------------------------------------------------------
(* Times: NaiveDateTime::parse_from_str(s, "%y%m%d%H%M"), the difference of two    *)
(* NaiveDateTime values, and the "%Y-%m-%d %H:%M:%S" rendering.                    *)

IsLeap(y) == (y % 4 = 0 /\ y % 100 # 0) \/ y % 400 = 0

DaysInMonth(y, m) ==
    IF m = 2 THEN (IF IsLeap(y) THEN 29 ELSE 28)
    ELSE IF m \in {4, 6, 9, 11} THEN 30 ELSE 31

RECURSIVE DaysBeforeMonth(_, _)
DaysBeforeMonth(y, m) ==
    IF m <= 1 THEN 0 ELSE DaysBeforeMonth(y, m - 1) + DaysInMonth(y, m - 1)

\* days from 0000-12-31 to the date (the day number a NaiveDate stands for)
DaysFromCE(y, m, d) ==
    LET p == y - 1
    IN  365 * p + (p \div 4) - (p \div 100) + (p \div 400) + DaysBeforeMonth(y, m) + d

RECURSIVE SkipSpaces(_, _)
\* str::trim_start before a numeric item: the first position from p on that holds no space
SkipSpaces(s, p) ==
    IF p <= Len(s) /\ s[p] = " " THEN SkipSpaces(s, p + 1) ELSE p

\* a numeric item of width 2: leading spaces are skipped, then one or two digits are
\* taken (as many as there are, at most two); no digit is an error
ScanNumber2(s, p) ==
    LET q == SkipSpaces(s, p)
    IN  IF q > Len(s) \/ ~IsDigit(s[q])
        THEN [ok |-> FALSE, val |-> 0, next |-> q]
        ELSE IF q + 1 <= Len(s) /\ IsDigit(s[q + 1])
             THEN [ok |-> TRUE, val |-> 10 * DigitVal(s[q]) + DigitVal(s[q + 1]),
                   next |-> q + 2]
             ELSE [ok |-> TRUE, val |-> DigitVal(s[q]), next |-> q + 1]

\* %y alone: 00..69 is 2000..2069, 70..99 is 1970..1999
YearOfMod100(r) == IF r < 70 THEN 2000 + r ELSE 1900 + r

\* NaiveDateTime::parse_from_str(s, "%y%m%d%H%M"): None for Err, else the date as
\* its day number and the time as seconds of the day (the format has no seconds)
ParseDbTime(s) ==
    LET fy == ScanNumber2(s, 1)
        fm == ScanNumber2(s, fy.next)
        fd == ScanNumber2(s, fm.next)
        fH == ScanNumber2(s, fd.next)
        fM == ScanNumber2(s, fH.next)
        y  == YearOfMod100(fy.val)
    IN  IF ~fy.ok THEN None
        ELSE IF ~fm.ok THEN None
        ELSE IF ~fd.ok THEN None
        ELSE IF ~fH.ok THEN None
        ELSE IF ~fM.ok THEN None
        ELSE IF fM.next # Len(s) + 1 THEN None
        ELSE IF fm.val \notin 1..12 THEN None
        ELSE IF fd.val \notin 1..DaysInMonth(y, fm.val) THEN None
        ELSE IF fH.val > 23 \/ fM.val > 59 THEN None
        ELSE Some([year |-> y, month |-> fm.val, day |-> fd.val,
                   days |-> DaysFromCE(y, fm.val, fd.val),
                   secs |-> 3600 * fH.val + 60 * fM.val])

\* `as i32` of the i64 minute count. Two dates %y can give lie within 1970..2069, so
\* the count is below 2^26 in size and the cast changes nothing
AsI32(n) == n

\* seconds / 60 truncated toward zero (i64 division), for the seconds
\* 86400 * dd + ds with -86400 < ds < 86400, computed without forming the seconds
NumMinutes(dd, ds) ==
    IF dd > 0 \/ (dd = 0 /\ ds >= 0)
    THEN 1440 * dd + (ds \div 60)
    ELSE 1440 * dd - ((-ds) \div 60)

\* (a - p).num_minutes() as i32: the difference of the dates in days and of the
\* times of day in seconds
DurationMinutes(p, a) == AsI32(NumMinutes(a.days - p.days, a.secs - p.secs))

\* calculate_delay_minutes(planned, actual)
calculate_delay_minutes(planned, actual) ==
    LET p_time == ParseDbTime(planned)
        a_time == ParseDbTime(actual)
    IN  IF p_time.some /\ a_time.some
        THEN DurationMinutes(p_time.val, a_time.val)
        ELSE 0

\* format_db_time(raw)
format_db_time(raw) ==
    IF Len(raw) # 10 THEN raw
    ELSE LET t == ParseDbTime(raw)
         IN  IF ~t.some THEN raw
             ELSE Fmt4(t.val.year) \o <<"-">> \o Fmt2(t.val.month) \o <<"-">>
                  \o Fmt2(t.val.day) \o <<" ">> \o Fmt2(t.val.secs \div 3600)
                  \o <<":">> \o Fmt2((t.val.secs % 3600) \div 60) \o <<":">>
                  \o Fmt2(t.val.secs % 60)

---------------------------------------------------------------------------
(* The parsed payload: Timetable, Stop, TrainEvent, TrainLine, Message.    *)
(* Of a Message only `category` is read by the program.                    *)

Message(cat) == [category |-> cat]

TrainLine(c, n) == [category |-> c, number |-> n]

TrainEvent(ct, pt, ppth, cpth, pp, l, c, n, m) ==
    [actual_time |-> ct, planned_time |-> pt, planned_path |-> ppth,
     changed_path |-> cpth, platform |-> pp, line |-> l, category |-> c,
     number |-> n, messages |-> m]

Stop(id, m, ar, dp, tl) ==
    [id |-> id, messages |-> m, arrivals |-> ar, departures |-> dp, train_line |-> tl]

\* TrainEvent::path
path(ev) == OptionOr(ev.changed_path, ev.planned_path)

---------------------------------------------------------------------------
(* HashMap<String, String> *)

EmptyMap == [k \in {} |-> <<>>]

MapGet(map, id) == IF id \in DOMAIN map THEN Some(map[id]) ELSE None

MapInsert(map, id, name) ==
    [k \in (DOMAIN map) \cup {id} |-> IF k = id THEN name ELSE map[k]]

---------------------------------------------------------------------------
(* Names *)

OriginName == <<"B", "e", "r", "l", "i", "n", " ", "H", "b", "f">>

Unknown == <<"U", "n", "k", "n", "o", "w", "n">>

NoPlatform == <<"-", "-">>

\* format!("{} {}", c, n)
CatNum(c, n) == c \o <<" ">> \o n

\* the (category, number) match on a TrainLine, in fetch_plan_map and fetch_departures
TrainLineName(tl) ==
    IF tl.category.some /\ tl.number.some THEN Some(CatNum(tl.category.val, tl.number.val))
    ELSE IF tl.category.some THEN Some(tl.category.val)
    ELSE None

\* Option::and_then over stop.train_line
StaticName(s) == IF s.train_line.some THEN TrainLineName(s.train_line.val) ELSE None

\* the name fetch_plan_map stores for a stop
final_name(s) ==
    LET event == OptionOr(s.departures, s.arrivals)
        fromLine == IF event.some /\ event.val.line.some /\ Len(event.val.line.val) > 0
                    THEN Some(event.val.line.val)
                    ELSE None
        train_name == IF fromLine.some THEN fromLine ELSE StaticName(s)
    IN  IF train_name.some THEN train_name.val
        ELSE <<"I", "D", ":">> \o Take(s.id, 8)

\* change_name of fetch_departures: the match on (dp.line, dp.category, dp.number)
change_name(dp) ==
    IF dp.line.some /\ Len(dp.line.val) > 0 THEN Some(dp.line.val)
    ELSE IF dp.category.some /\ dp.number.some
         THEN Some(CatNum(dp.category.val, dp.number.val))
         ELSE None

\* train_name with the Identity Map consulted before the departure event
train_name_map_first(s, dp, map) ==
    LET named == OptionOr(OptionOr(MapGet(map, s.id), change_name(dp)), StaticName(s))
    IN  IF named.some THEN named.val ELSE Unknown

\* train_name of fetch_departures
train_name(s, dp, map) ==
    LET named == OptionOr(OptionOr(change_name(dp), MapGet(map, s.id)), StaticName(s))
    IN  IF named.some THEN named.val ELSE Unknown

---------------------------------------------------------------------------
(* Route and destination *)

\* full_route with the both-empty case left to the next branch
full_route_no_empty_case(arrival_path, departure_path) ==
    IF Len(arrival_path) = 0 THEN OriginName \o <<"|">> \o departure_path
    ELSE IF Len(departure_path) = 0 THEN arrival_path \o <<"|">> \o OriginName
    ELSE arrival_path \o <<"|">> \o OriginName \o <<"|">> \o departure_path

\* full_route of fetch_departures
full_route(arrival_path, departure_path) ==
    IF Len(arrival_path) = 0 /\ Len(departure_path) = 0 THEN OriginName
    ELSE IF Len(arrival_path) = 0 THEN OriginName \o <<"|">> \o departure_path
    ELSE IF Len(departure_path) = 0 THEN arrival_path \o <<"|">> \o OriginName
    ELSE arrival_path \o <<"|">> \o OriginName \o <<"|">> \o departure_path

\* dest taken from the first segment
dest_first_segment(departure_path) ==
    LET first == FilterNonEmpty(Some(Split(departure_path, "|")[1]))
    IN  IF first.some THEN first.val ELSE OriginName

\* dest of fetch_departures
dest(departure_path) ==
    LET last == FilterNonEmpty(LastOf(Split(departure_path, "|")))
    IN  IF last.some THEN last.val ELSE OriginName

---------------------------------------------------------------------------
(* fetch_departures, from the parsed payload on *)

\* delay_min with the operands of calculate_delay_minutes exchanged
delay_min_swapped(dp) ==
    IF dp.planned_time.some /\ dp.actual_time.some
    THEN calculate_delay_minutes(dp.actual_time.val, dp.planned_time.val)
    ELSE 0

\* delay_min of fetch_departures
delay_min(dp) ==
    IF dp.planned_time.some /\ dp.actual_time.some
    THEN calculate_delay_minutes(dp.planned_time.val, dp.actual_time.val)
    ELSE 0

\* the record pushed for a stop that has a departure event
Departure(s, map) ==
    LET dp == s.departures.val
        raw_time == IF dp.actual_time.some THEN dp.actual_time.val
                    ELSE UnwrapOrDefault(dp.planned_time)
        arrival_path == IF s.arrivals.some THEN UnwrapOrDefault(path(s.arrivals.val))
                        ELSE <<>>
        departure_path == UnwrapOrDefault(path(dp))
        categories == SortDedup(FilterMapCategory(s.messages \o dp.messages))
    IN  [trip_id |-> s.id,
         train |-> train_name(s, dp, map),
         destination |-> dest(departure_path),
         path |-> full_route(arrival_path, departure_path),
         scheduled_time |-> format_db_time(raw_time),
         platform |-> IF dp.platform.some THEN dp.platform.val ELSE NoPlatform,
         delay |-> delay_min(dp),
         disturbances |-> Join(categories, <<"|">>)]

RECURSIVE FlattenStops(_, _)
\* the loop over timetable.stops: one record per stop that has a departure event
FlattenStops(stops, map) ==
    IF Len(stops) = 0 THEN <<>>
    ELSE (IF stops[1].departures.some THEN <<Departure(stops[1], map)>> ELSE <<>>)
         \o FlattenStops(Tail(stops), map)

RECURSIVE InsertStops(_, _)
\* the loop over timetable.stops in fetch_plan_map
InsertStops(map, stops) ==
    IF Len(stops) = 0 THEN map
    ELSE InsertStops(MapInsert(map, stops[1].id, final_name(stops[1])), Tail(stops))

---------------------------------------------------------------------------
(* Bounds and inputs *)

\* longest path string drawn for an event
MaxPathLen == 3

\* most stops in one payload of the run
MaxStops == 2

\* the row-count cap of main
LIMIT == 500

\* the hour offsets of fetch_plan_map: HourFrom .. HourTo - 1
HourFrom == -2

HourTo == 6

\* sequences over S of length 0..n
SeqUpTo(S, n) == UNION {[1..k -> S] : k \in 0..n}

LongId == <<"1", "2", "3", "4", "5", "6", "7", "8", "9", "0">>

ShortId == <<"x", "1">>

S1 == <<"S", "1">>

RE1 == <<"R", "E", "1">>

RB9 == <<"R", "B", " ", "9">>

ICE == <<"I", "C", "E">>

RE == <<"R", "E">>

\* a TrainEvent with every attribute absent
BareEvent == TrainEvent(None, None, None, None, None, None, None, None, <<>>)

LineEvent(l) == [BareEvent EXCEPT !.line = l]

\* the row counts the store may report
Counts == {0, LIMIT - 1, LIMIT, LIMIT + 1}

\* what the count query returns: a number, or an error
QueryResults == {[ok |-> TRUE, val |-> n] : n \in Counts} \cup {[ok |-> FALSE, val |-> 0]}

\* stops of a plan payload in a run
PlanStops ==
    { Stop(LongId, <<>>, Some(LineEvent(Some(RE1))), Some(LineEvent(Some(S1))), None),
      Stop(LongId, <<>>, Some(LineEvent(Some(RE1))), Some(LineEvent(None)), None),
      Stop(LongId, <<>>, Some(LineEvent(Some(RE1))), None, None),
      Stop(LongId, <<>>, None, Some(LineEvent(Some(<<>>))),
           Some(TrainLine(Some(RE), Some(<<"5">>)))),
      Stop(ShortId, <<>>, None, None, Some(TrainLine(Some(RE), None))),
      Stop(ShortId, <<>>, None, None, Some(TrainLine(None, Some(<<"5">>)))) }

\* stops of a live-changes payload in a run
LiveStops ==
    { Stop(LongId, <<>>, None,
           Some([BareEvent EXCEPT !.line = Some(S1),
                                  !.planned_time = Some(<<"2", "6", "0", "2", "1", "0", "1", "7", "0", "0">>),
                                  !.actual_time = Some(<<"2", "6", "0", "2", "1", "0", "1", "7", "1", "2">>),
                                  !.planned_path = Some(<<"A", "|", "B">>)]),
           None),
      Stop(LongId, <<>>, Some(BareEvent), Some(BareEvent), None),
      Stop(ShortId, <<>>, Some(LineEvent(Some(RE1))), None, None) }

\* a response: the status class and the body (unreadable, malformed, or a Timetable)
Responses(stops) ==
    {[success |-> s, body |-> b] :
        s \in BOOLEAN,
        b \in {[kind |-> "unreadable", stops |-> <<>>], [kind |-> "malformed", stops |-> <<>>]}
              \cup {[kind |-> "xml", stops |-> p] : p \in SeqUpTo(stops, MaxStops)}}

\* what send() gives: a transport error, or a response
SendResults(stops) == {None} \cup {Some(r) : r \in Responses(stops)}

---------------------------------------------------------------------------
(* main *)

Init ==
    /\ pc = "open"
    /\ exit = "running"
    /\ count = None
    /\ i = HourFrom
    /\ planFetches = 0
    /\ plan_map = EmptyMap
    /\ planResult = "none"
    /\ lastPlanStop = None
    /\ liveFetches = 0
    /\ liveResp = None
    /\ liveResult = "none"
    /\ departures = <<>>
    /\ sinkCalls = 0
    /\ sinkResult = "none"
    /\ artifacts = 0
    /\ heartbeatIo = "none"
    /\ heartbeat = <<>>
    /\ stderr = <<>>

\* `return`/`?`/panic of main
Leave(how) == pc' = "done" /\ exit' = how

\* Connection::open("../data/dbt.duckdb")?
OpenDb ==
    /\ pc = "open"
    /\ \E ok \in BOOLEAN :
          IF ok THEN pc' = "gate" /\ exit' = exit ELSE Leave("err")
    /\ UNCHANGED <<count, i, planFetches, plan_map, planResult, lastPlanStop,
                   liveFetches, liveResp, liveResult, departures, sinkCalls,
                   sinkResult, artifacts, heartbeatIo, heartbeat, stderr>>

\* count >= limit, with > for >=
GatedStrict(c) == c > LIMIT

\* count >= limit
Gated(c) == c >= LIMIT

\* the count query with unwrap_or(0), and the gate
Gate ==
    /\ pc = "gate"
    /\ \E r \in QueryResults :
          LET c == IF r.ok THEN r.val ELSE 0
          IN  /\ count' = Some(c)
              /\ IF Gated(c) THEN Leave("ok") ELSE pc' = "config" /\ exit' = exit
    /\ UNCHANGED <<i, planFetches, plan_map, planResult, lastPlanStop,
                   liveFetches, liveResp, liveResult, departures, sinkCalls,
                   sinkResult, artifacts, heartbeatIo, heartbeat, stderr>>

\* env::var("DB_CLIENT_ID").expect(..), env::var("DB_API_KEY").expect(..)
LoadConfig ==
    /\ pc = "config"
    /\ \E client_id, api_key \in BOOLEAN :
          IF client_id /\ api_key THEN pc' = "dirs" /\ exit' = exit ELSE Leave("panic")
    /\ UNCHANGED <<count, i, planFetches, plan_map, planResult, lastPlanStop,
                   liveFetches, liveResp, liveResult, departures, sinkCalls,
                   sinkResult, artifacts, heartbeatIo, heartbeat, stderr>>

\* create_dir_all("logs")?, create_dir_all("../data/bronze")?
CreateDirs ==
    /\ pc = "dirs"
    /\ \E logs, bronze \in BOOLEAN :
          IF logs /\ bronze THEN pc' = "plan" /\ exit' = exit ELSE Leave("err")
    /\ UNCHANGED <<count, i, planFetches, plan_map, planResult, lastPlanStop,
                   liveFetches, liveResp, liveResult, departures, sinkCalls,
                   sinkResult, artifacts, heartbeatIo, heartbeat, stderr>>

\* the end of one iteration of the loop of fetch_plan_map: the next hour, or Ok(map)
\* and on to the live-changes fetch
PlanContinue ==
    /\ i' = i + 1
    /\ exit' = exit
    /\ IF i + 1 = HourTo
       THEN planResult' = "ok" /\ pc' = "live"
       ELSE planResult' = planResult /\ pc' = "plan"

\* a `?` inside fetch_plan_map: it returns Err, and main's `?` returns Err
PlanFail ==
    /\ planResult' = "err"
    /\ Leave("err")
    /\ UNCHANGED <<i, plan_map, lastPlanStop, stderr>>

\* one iteration of `for i in -2..6` of fetch_plan_map, called by main
PlanHour ==
    /\ pc = "plan"
    /\ i \in HourFrom..(HourTo - 1)
    /\ planFetches' = planFetches + 1
    /\ \E sent \in SendResults(PlanStops) :
          IF ~sent.some
          THEN PlanFail                                  \* send().await?
          ELSE IF ~sent.val.success
          THEN /\ stderr' = Append(stderr, "Could not fetch hour")
               /\ UNCHANGED <<plan_map, lastPlanStop>>
               /\ PlanContinue
          ELSE IF sent.val.body.kind # "xml"
          THEN PlanFail                                  \* text().await?, from_str(..)?
          ELSE LET stops == sent.val.body.stops
               IN  /\ plan_map' = InsertStops(plan_map, stops)
                   /\ lastPlanStop' = IF Len(stops) = 0 THEN lastPlanStop
                                      ELSE Some(stops[Len(stops)])
                   /\ stderr' = stderr
                   /\ PlanContinue
    /\ UNCHANGED <<count, liveFetches, liveResp, liveResult, departures, sinkCalls,
                   sinkResult, artifacts, heartbeatIo, heartbeat>>

\* fetch_departures sends the live-changes request; what comes back is in flight
LiveSend ==
    /\ pc = "live"
    /\ liveFetches' = liveFetches + 1
    /\ \E sent \in SendResults(LiveStops) : liveResp' = Some(sent)
    /\ pc' = "live_resp"
    /\ UNCHANGED <<exit, count, i, planFetches, plan_map, planResult, lastPlanStop,
                   liveResult, departures, sinkCalls, sinkResult, artifacts,
                   heartbeatIo, heartbeat, stderr>>

\* whether fetch_departures returns Ok for what came back: the status is not looked at
LiveOk(sent) == sent.some /\ sent.val.body.kind = "xml"

\* the rest of fetch_departures and the match of main on its result
FetchDepartures ==
    /\ pc = "live_resp"
    /\ IF LiveOk(liveResp.val)
       THEN /\ liveResult' = "ok"
            /\ departures' = FlattenStops(liveResp.val.val.body.stops, plan_map)
            /\ pc' = "sink"
            /\ UNCHANGED <<exit, stderr>>
       ELSE /\ liveResult' = "err"
            /\ stderr' = Append(stderr, "Failed to fetch departures")
            /\ Leave("ok")
            /\ UNCHANGED departures
    /\ UNCHANGED <<count, i, planFetches, plan_map, planResult, lastPlanStop,
                   liveFetches, liveResp, sinkCalls, sinkResult, artifacts,
                   heartbeatIo, heartbeat>>

\* what write_parquet can come to: Ok, or Err before the file is created
\* (RecordBatch::try_new, File::create), or Err after (ArrowWriter, write, close)
SinkOutcomes == {"ok", "err_before_create", "err_after_create"}

\* the sink step with the run left on a sink failure
WriteParquetAborting ==
    /\ pc = "sink"
    /\ IF Len(departures) = 0
       THEN /\ pc' = "heartbeat"
            /\ UNCHANGED <<exit, sinkCalls, sinkResult, artifacts, stderr>>
       ELSE /\ sinkCalls' = sinkCalls + 1
            /\ \E r \in SinkOutcomes :
                  /\ sinkResult' = IF r = "ok" THEN "ok" ELSE "err"
                  /\ artifacts' = IF r = "err_before_create" THEN artifacts
                                  ELSE artifacts + 1
                  /\ stderr' = IF r = "ok" THEN stderr
                               ELSE Append(stderr, "Failed to write Parquet")
                  /\ IF r = "ok" THEN pc' = "heartbeat" /\ exit' = exit ELSE Leave("err")
    /\ UNCHANGED <<count, i, planFetches, plan_map, planResult, lastPlanStop,
                   liveFetches, liveResp, liveResult, departures, heartbeatIo,
                   heartbeat>>

\* the sink step without the is_empty test
WriteParquetAlways ==
    /\ pc = "sink"
    /\ sinkCalls' = sinkCalls + 1
    /\ \E r \in SinkOutcomes :
          /\ sinkResult' = IF r = "ok" THEN "ok" ELSE "err"
          /\ artifacts' = IF r = "err_before_create" THEN artifacts ELSE artifacts + 1
          /\ stderr' = IF r = "ok" THEN stderr
                       ELSE Append(stderr, "Failed to write Parquet")
    /\ pc' = "heartbeat"
    /\ UNCHANGED <<exit, count, i, planFetches, plan_map, planResult, lastPlanStop,
                   liveFetches, liveResp, liveResult, departures, heartbeatIo,
                   heartbeat>>

\* if !departures.is_empty() { if let Err(e) = write_parquet(..) { eprintln } else { .. } }
WriteParquet ==
    /\ pc = "sink"
    /\ IF Len(departures) = 0
       THEN UNCHANGED <<sinkCalls, sinkResult, artifacts, stderr>>
       ELSE /\ sinkCalls' = sinkCalls + 1
            /\ \E r \in SinkOutcomes :
                  /\ sinkResult' = IF r = "ok" THEN "ok" ELSE "err"
                  /\ artifacts' = IF r = "err_before_create" THEN artifacts
                                  ELSE artifacts + 1
                  /\ stderr' = IF r = "ok" THEN stderr
                               ELSE Append(stderr, "Failed to write Parquet")
    /\ pc' = "heartbeat"
    /\ UNCHANGED <<exit, count, i, planFetches, plan_map, planResult, lastPlanStop,
                   liveFetches, liveResp, liveResult, departures, heartbeatIo,
                   heartbeat>>

\* what the append to the heartbeat log can come to: the file does not open, the
\* write fails (no whole line is left), or the line is written
HeartbeatOutcomes == {"ok", "open_err", "write_err"}

\* the heartbeat line ("{now} | Fetched {N} departures"), then Ok(())
Heartbeat ==
    /\ pc = "heartbeat"
    /\ \E io \in HeartbeatOutcomes :
          /\ heartbeatIo' = io
          /\ heartbeat' = IF io = "ok" THEN Append(heartbeat, Len(departures))
                          ELSE heartbeat
    /\ Leave("ok")
    /\ UNCHANGED <<count, i, planFetches, plan_map, planResult, lastPlanStop,
                   liveFetches, liveResp, liveResult, departures, sinkCalls,
                   sinkResult, artifacts, stderr>>

Next ==
    \/ OpenDb
    \/ Gate
    \/ LoadConfig
    \/ CreateDirs
    \/ PlanHour
    \/ LiveSend
    \/ FetchDepartures
    \/ WriteParquet
    \/ Heartbeat

Spec == Init /\ [][Next]_vars

---------------------------------------------------------------------------
(* The flattening of one stop, over wider inputs: the run stands where the       *)
(* live-changes response has come back, after a plan build of eight good hours.  *)

PathChars == {"|", "A", "B"}

Paths == SeqUpTo(PathChars, MaxPathLen)

\* events that differ in their paths
PathEvents ==
    {[BareEvent EXCEPT !.changed_path = c, !.planned_path = p] :
        c \in OptionOf(Paths), p \in {None, Some(<<>>), Some(<<"C">>)}}

PathStops ==
    {Stop(LongId, <<>>, ar, Some(dp), None) : ar \in OptionOf(PathEvents), dp \in PathEvents}

\* events that differ in line, category and number
NameEvents ==
    {[BareEvent EXCEPT !.line = l, !.category = c, !.number = n] :
        l \in {None, Some(<<>>), Some(S1)}, c \in {None, Some(ICE)},
        n \in {None, Some(<<"7">>)}}

TrainLines ==
    {TrainLine(c, n) : c \in {None, Some(RE)}, n \in {None, Some(<<"5">>)}}

NameStops ==
    {Stop(LongId, <<>>, ar, dp, tl) :
        ar \in {None, Some(LineEvent(Some(RE1)))},
        dp \in OptionOf(NameEvents),
        tl \in OptionOf(TrainLines)}

\* YYMMDDHHMM of the numbers given
TimeStr(y, m, d, H, M) == Fmt2(y) \o Fmt2(m) \o Fmt2(d) \o Fmt2(H) \o Fmt2(M)

\* time attributes: well-formed ones (same day, across midnight, across a month, a
\* year, a leap day, both sides of the %y pivot), ones no date matches, and ones of
\* another shape (short, a letter, spaces for leading zeros, empty)
TimeStrs ==
    { TimeStr(26, 2, 10, 17, 0), TimeStr(26, 2, 10, 17, 12), TimeStr(26, 2, 10, 16, 55),
      TimeStr(26, 2, 11, 0, 5), TimeStr(26, 2, 28, 23, 59), TimeStr(26, 3, 1, 0, 1),
      TimeStr(26, 12, 31, 23, 58), TimeStr(27, 1, 1, 0, 3), TimeStr(28, 2, 29, 12, 0),
      TimeStr(69, 12, 31, 23, 59), TimeStr(70, 1, 1, 0, 0),
      TimeStr(26, 2, 29, 12, 0), TimeStr(26, 13, 1, 0, 0), TimeStr(26, 2, 10, 24, 0),
      TimeStr(26, 2, 10, 17, 60),
      Take(TimeStr(26, 2, 10, 17, 0), 8),
      Take(TimeStr(26, 2, 10, 17, 0), 9),
      TimeStr(26, 2, 10, 17, 0) \o <<"0">>,
      Take(TimeStr(26, 2, 10, 17, 0), 8) \o <<"x", "x">>,
      <<"2", "6", " ", "2", "1", "0", "1", "7", " ", "9">>,
      <<>> }

TimeStops ==
    {Stop(LongId, <<>>, None,
          Some([BareEvent EXCEPT !.planned_time = pt, !.actual_time = ct]), None) :
        pt \in OptionOf(TimeStrs), ct \in OptionOf(TimeStrs)}

Messages == {Message(None), Message(Some(<<"d">>)), Message(Some(<<"f">>)),
             Message(Some(<<"d", "f">>))}

MessageStops ==
    {Stop(ShortId, sm, None, Some([BareEvent EXCEPT !.messages = dm, !.platform = pp]),
          None) :
        sm \in SeqUpTo(Messages, 2), dm \in SeqUpTo(Messages, 1),
        pp \in {None, Some(<<"7">>)}}

\* a plan stop that gives the id the name "RB 9"
PlanStopFor(id) == Stop(id, <<>>, None, Some(LineEvent(Some(RB9))), None)

\* the plan payloads behind the Identity Map of the flattening
PlanPayloads == {<<>>, <<PlanStopFor(LongId)>>, <<PlanStopFor(ShortId)>>}

InitFlatten ==
    /\ pc = "live_resp"
    /\ exit = "running"
    /\ count = Some(0)
    /\ i = HourTo
    /\ planFetches = HourTo - HourFrom
    /\ planResult = "ok"
    /\ liveFetches = 1
    /\ liveResult = "none"
    /\ departures = <<>>
    /\ sinkCalls = 0
    /\ sinkResult = "none"
    /\ artifacts = 0
    /\ heartbeatIo = "none"
    /\ heartbeat = <<>>
    /\ stderr = <<>>
    /\ \E planned \in PlanPayloads, s \in PathStops \cup NameStops \cup TimeStops \cup MessageStops :
          /\ planned # <<>> => s \in NameStops
          /\ plan_map = InsertStops(EmptyMap, planned)
          /\ lastPlanStop = IF planned = <<>> THEN None ELSE Some(planned[1])
          /\ liveResp = Some(Some([success |-> TRUE,
                                   body |-> [kind |-> "xml", stops |-> <<s>>]]))

SpecFlatten == InitFlatten /\ [][FetchDepartures]_vars

---------------------------------------------------------------------------
(* Properties *)

\* fetch_departures has returned Ok: `departures` holds its records
Flattened == liveResult = "ok"

HasDeparture(s) == s.departures.some

\* the stops of the live-changes payload that have a departure event, in order:
\* record k of `departures` is built from stop k of these
DepartingStops == SelectSeq(liveResp.val.val.body.stops, HasDeparture)

\* fetch_departures returned one record per stop that has a departure event
OneRecordPerDeparture == Len(departures) = Len(DepartingStops)

\* the pairs <<stop, record built from it>> of the payload fetch_departures flattened
RecordPairs ==
    IF Flattened /\ OneRecordPerDeparture
    THEN {<<DepartingStops[k], departures[k]>> : k \in 1..Len(departures)}
    ELSE {}

\* the train name by the five-step priority list
PriorityName(s) ==
    LET dp == s.departures.val
        tl == s.train_line
    IN  IF dp.line.some /\ dp.line.val # <<>> THEN dp.line.val
        ELSE IF dp.category.some /\ dp.number.some
             THEN dp.category.val \o <<" ">> \o dp.number.val
        ELSE IF s.id \in DOMAIN plan_map THEN plan_map[s.id]
        ELSE IF tl.some /\ tl.val.category.some /\ tl.val.number.some
             THEN tl.val.category.val \o <<" ">> \o tl.val.number.val
        ELSE IF tl.some /\ tl.val.category.some THEN tl.val.category.val
        ELSE Unknown

C1_Holds(s, r) == r.train = PriorityName(s)

\* C1: for every stop that has a departure event, the record's train name is the
\* first available of: the departure event's non-empty line label; "{category}
\* {number}" of the departure event; the Identity Map entry of the stop id; the
\* static train-line descriptor (category and number, or category alone);
\* "Unknown". A non-empty line label wins whatever the map and descriptor hold.
C1_TrainNamePriority ==
    Flattened =>
        /\ OneRecordPerDeparture
        /\ \A sr \in RecordPairs : C1_Holds(sr[1], sr[2])

C1_Case(s, r) ==
    /\ s.departures.val.line = Some(S1)
    /\ s.id \in DOMAIN plan_map
    /\ s.train_line = Some(TrainLine(Some(RE), Some(<<"5">>)))
    /\ r.train = S1

\* a stop with a line label, a map entry and a static descriptor has been flattened
C1_Witness == \E sr \in RecordPairs : C1_Case(sr[1], sr[2])

\* the minute count of a parsed time
MinuteCount(t) == 1440 * t.days + (t.secs \div 60)

\* the delay by the rule: the difference of the minute counts when both times are
\* present and parse, else 0
RuleDelay(s) ==
    LET dp == s.departures.val
    IN  IF /\ dp.planned_time.some
           /\ dp.actual_time.some
           /\ ParseDbTime(dp.planned_time.val).some
           /\ ParseDbTime(dp.actual_time.val).some
        THEN MinuteCount(ParseDbTime(dp.actual_time.val).val)
             - MinuteCount(ParseDbTime(dp.planned_time.val).val)
        ELSE 0

C8_Holds(s, r) == r.delay = RuleDelay(s)

\* C8: for every departure event the record's delay is (actual minute count -
\* planned minute count), negative when early, when planned and actual time are
\* both present and both parse as YYMMDDHHMM; in every other case it is 0.
C8_DelayIsMinuteDifference ==
    Flattened =>
        /\ OneRecordPerDeparture
        /\ \A sr \in RecordPairs : C8_Holds(sr[1], sr[2])

C8_Case(s, r) ==
    /\ s.departures.val.planned_time = Some(TimeStr(26, 2, 11, 0, 5))
    /\ s.departures.val.actual_time = Some(TimeStr(26, 2, 10, 16, 55))
    /\ r.delay = -430

\* an early departure across midnight has been flattened
C8_Witness == \E sr \in RecordPairs : C8_Case(sr[1], sr[2])

\* an event's effective path: the changed path if present, else the planned path;
\* empty when the event or both paths are absent
EffectivePath(ev) ==
    IF ~ev.some THEN <<>>
    ELSE IF ev.val.changed_path.some THEN ev.val.changed_path.val
    ELSE IF ev.val.planned_path.some THEN ev.val.planned_path.val
    ELSE <<>>

C9_Holds(s, r) ==
    LET a == EffectivePath(s.arrivals)
        d == EffectivePath(s.departures)
    IN  /\ (a = <<>> /\ d = <<>>) => r.path = OriginName
        /\ (a = <<>> /\ d # <<>>) => r.path = OriginName \o <<"|">> \o d
        /\ (a # <<>> /\ d = <<>>) => r.path = a \o <<"|">> \o OriginName
        /\ (a # <<>> /\ d # <<>>) => r.path = a \o <<"|">> \o OriginName \o <<"|">> \o d
        /\ r.path = Join(SelectSeq(<<a, OriginName, d>>, LAMBDA x : x # <<>>), <<"|">>)

\* C9: with each event's effective path its changed path if present, else its
\* planned path (empty when the event or both paths are absent), the full route is:
\* "Berlin Hbf" when both are empty; "Berlin Hbf|{departure}" when only the arrival
\* path is empty; "{arrival}|Berlin Hbf" when only the departure path is empty;
\* "{arrival}|Berlin Hbf|{departure}" when neither is. The four cases cover every
\* pair: the route is the non-empty ones of arrival, "Berlin Hbf", departure, joined.
C9_FullRouteFourCases ==
    Flattened =>
        /\ OneRecordPerDeparture
        /\ \A sr \in RecordPairs : C9_Holds(sr[1], sr[2])

C9_Case(s, r) ==
    /\ s.arrivals.some
    /\ s.arrivals.val.changed_path = Some(<<"A">>)
    /\ s.arrivals.val.planned_path = Some(<<"C">>)
    /\ s.departures.val.changed_path = None
    /\ s.departures.val.planned_path = Some(<<"C">>)
    /\ r.path = <<"A", "|">> \o OriginName \o <<"|", "C">>

\* a stop with a rerouted arrival and a planned departure path has been flattened
C9_Witness == \E sr \in RecordPairs : C9_Case(sr[1], sr[2])

\* the part of p after its last delimiter (all of p when it has none)
LastSegment(p) ==
    LET at == DelimAt(p, "|")
        k == IF at = {} THEN 0 ELSE CHOOSE m \in at : \A o \in at : o <= m
    IN  SubSeq(p, k + 1, Len(p))

C10_Original(s, r) ==
    LET d == EffectivePath(s.departures)
    IN  /\ r.destination = (IF d = <<>> THEN OriginName ELSE LastSegment(d))
        /\ (r.destination = OriginName) <=> (d = <<>>)

\* C10 as claimed: the destination is the last '|'-delimited segment of the
\* effective departure path, and is "Berlin Hbf" exactly when that path is empty,
\* for every departure path, also one that ends with the delimiter.
C10_DestinationLastSegmentOrOriginIffEmpty ==
    Flattened =>
        /\ OneRecordPerDeparture
        /\ \A sr \in RecordPairs : C10_Original(sr[1], sr[2])

C10_Holds(s, r) ==
    LET d == EffectivePath(s.departures)
    IN  /\ LastSegment(d) # <<>> => r.destination = LastSegment(d)
        /\ LastSegment(d) = <<>> => r.destination = OriginName
        /\ (r.destination = OriginName) <=> (d = <<>> \/ d[Len(d)] = "|")

\* C10 amended: the destination is the last '|'-delimited segment of the effective
\* departure path when that segment is not empty, and "Berlin Hbf" when it is
\* empty, which is exactly when the path is empty or ends with the delimiter.
C10_DestinationLastNonEmptySegment ==
    Flattened =>
        /\ OneRecordPerDeparture
        /\ \A sr \in RecordPairs : C10_Holds(sr[1], sr[2])

C10_Case(s, r) ==
    /\ EffectivePath(s.departures) = <<"A", "|">>
    /\ r.destination = OriginName

\* a stop whose departure path ends with the delimiter has been flattened
C10_Witness == \E sr \in RecordPairs : C10_Case(sr[1], sr[2])

\* main has read the row count and it is below the cap: the run is RUNNING
PassedGate == count.some /\ count.val < LIMIT

Logged(line) == \E k \in 1..Len(stderr) : stderr[k] = line

C3_PlanBuildNeverFails ==
    /\ planResult # "err"
    /\ (planFetches > 0 /\ pc = "done") =>
           (planFetches = HourTo - HourFrom /\ liveFetches = 1)

\* what came back for the live-changes request is a non-2xx response or a body
\* that does not parse
LiveNon2xxOrMalformed ==
    /\ liveResp.some
    /\ liveResp.val.some
    /\ (~liveResp.val.val.success \/ liveResp.val.val.body.kind = "malformed")

\* C4 as claimed: a non-2xx response or a malformed body on the live-changes fetch
\* is an error of the whole run: fetch_departures returns an error, no record is
\* produced or sunk, the failure is logged and the process ends without crashing.
C4_LiveNon2xxOrMalformedIsError ==
    (LiveNon2xxOrMalformed /\ pc # "live_resp") =>
        /\ liveResult = "err"
        /\ departures = <<>>
        /\ sinkCalls = 0
        /\ Logged("Failed to fetch departures")
        /\ pc = "done"
        /\ exit = "ok"

\* C5 as claimed: every run that passes the gate has appended exactly one heartbeat
\* line when the process ends, whatever the outcome of the plan build, the
\* live-changes fetch, the flattening and the sink.
C5_OneHeartbeatPerRun ==
    (PassedGate /\ pc = "done") => Len(heartbeat) = 1

\* C5 amended: a run that passes the gate appends at most one heartbeat line. The
\* append is attempted exactly when fetch_departures returned Ok, whatever the sink
\* did, and leaves one line when the log file opens and the write succeeds. No line
\* is appended when a credential is missing, a directory cannot be made, the plan
\* build fails or the live-changes fetch or parse fails.
C5_HeartbeatOnlyAfterGoodFetch ==
    (PassedGate /\ pc = "done") =>
        /\ (heartbeatIo # "none") <=> (liveResult = "ok")
        /\ Len(heartbeat) = (IF liveResult = "ok" /\ heartbeatIo = "ok" THEN 1 ELSE 0)

\* a run has ended with its heartbeat line after a failed sink
C5_Witness ==
    /\ PassedGate
    /\ pc = "done"
    /\ sinkResult = "err"
    /\ Len(heartbeat) = 1

\* C6 as claimed: when fetch and flatten succeed with N records, the sink is called
\* at most once and only when N > 0, and afterwards exactly one heartbeat line
\* reporting N is appended, whether the sink was skipped, succeeded or failed; a
\* sink failure is logged and the process exits successfully.
C6_HeartbeatLineAfterSink ==
    (liveResult = "ok" /\ pc = "done") =>
        /\ sinkCalls = (IF Len(departures) > 0 THEN 1 ELSE 0)
        /\ heartbeat = <<Len(departures)>>
        /\ (sinkResult = "err" => Logged("Failed to write Parquet"))
        /\ exit = "ok"

\* C6 amended: when fetch and flatten succeed with N records, the sink is called at
\* most once and only when N > 0, and afterwards the heartbeat append is attempted
\* exactly once, whether the sink was skipped, succeeded or failed: it leaves
\* exactly one line, reporting N, when the log file opens and the write succeeds,
\* and no line otherwise (that failure is ignored). A sink failure is logged and
\* the process exits successfully.
C6_HeartbeatAttemptAfterSink ==
    /\ (liveResult = "ok" /\ pc \in {"heartbeat", "done"}) =>
           /\ sinkCalls = (IF Len(departures) > 0 THEN 1 ELSE 0)
           /\ (sinkResult = "none") <=> (Len(departures) = 0)
           /\ (sinkResult = "err" => Logged("Failed to write Parquet"))
    /\ (liveResult = "ok" /\ pc = "done") =>
           /\ heartbeatIo # "none"
           /\ heartbeat = (IF heartbeatIo = "ok" THEN <<Len(departures)>> ELSE <<>>)
           /\ exit = "ok"

\* a run with records has ended after a failed sink, its heartbeat line written
C6_Witness ==
    /\ liveResult = "ok"
    /\ pc = "done"
    /\ Len(departures) > 0
    /\ sinkResult = "err"
    /\ heartbeat = <<Len(departures)>>

\* the name of a plan stop by the rule: the departure event's non-empty line label,
\* else the arrival event's, else the static descriptor, else "ID:" and the first
\* eight characters of the id
RulePlanName(s) ==
    LET dp == s.departures
        ar == s.arrivals
        tl == s.train_line
    IN  IF dp.some /\ dp.val.line.some /\ dp.val.line.val # <<>> THEN dp.val.line.val
        ELSE IF ar.some /\ ar.val.line.some /\ ar.val.line.val # <<>> THEN ar.val.line.val
        ELSE IF tl.some /\ tl.val.category.some /\ tl.val.number.some
             THEN tl.val.category.val \o <<" ">> \o tl.val.number.val
        ELSE IF tl.some /\ tl.val.category.some THEN tl.val.category.val
        ELSE <<"I", "D", ":">> \o SubSeq(s.id, 1, IF Len(s.id) < 8 THEN Len(s.id) ELSE 8)

\* C7 as claimed: for every stop of a parsed plan payload, with or without a
\* departure event and with or without an arrival event, the name stored under
\* the stop id is the departure event's line label if present and non-empty, else
\* the arrival event's line label, else the static descriptor ("{category}
\* {number}", or the category alone), else "ID:" and the first 8 characters of the
\* id; a later entry for the same id overwrites an earlier one.
C7_PlanNameByRule ==
    lastPlanStop.some =>
        /\ lastPlanStop.val.id \in DOMAIN plan_map
        /\ plan_map[lastPlanStop.val.id] = RulePlanName(lastPlanStop.val)
====
